---- MODULE Spec2Model ----
(***************************************************************************)
(* Model of runner.py: a directory-based task queue.  Workers claim a task *)
(* by renaming its file from the tasks directory into the running          *)
(* directory, run the command found in the file and move the file to the   *)
(* finished or failed directory.  main() runs one worker in the caller or  *)
(* starts N worker processes and joins them.  With --logs, run_command     *)
(* writes the command, the output of the child and its return code to the  *)
(* file <stem>.log and worker_loop appends the timing block.               *)
(*                                                                         *)
(* Time is counted in ticks of one poll interval.  A step of a worker that *)
(* does not sleep or wait for a child takes no time: Tick is enabled only  *)
(* when every live worker is asleep, in its post-move delay or waiting for *)
(* its child process.                                                      *)
(***************************************************************************)
EXTENDS Naturals, Integers, Sequences, FiniteSets, TLC

\* ---------------------------------------------------------------- bounds
\* Task file names are 1..NumNames; sorted() orders them by number.
NumNames == 2
\* --workers ranges over 0..MaxWorkers.
MaxWorkers == 2
\* --idle-timeout ranges over 0..MaxIdleTimeout (in ticks).
MaxIdleTimeout == 2
\* --jitter ranges over 0..MaxJitter (in ticks).
MaxJitter == 1
\* How many times the operator may put a file into the tasks directory
\* after the start.
MaxEnqueue == 1

\* --poll, the base polling interval: the time unit of the model.
Poll == 1

Names == 1..NumNames
Workers == 0..(MaxWorkers - 1)
Dirs == {"tasks", "running", "finished", "failed"}

\* ------------------------------------------------------------ task files
\* The text of a task file is a sequence of lines.  "" and " " are blank
\* lines; "true" exits 0, "false" exits 1, "'" is a line shlex.split()
\* rejects (no closing quotation).
BlankLines == {"", " "}
TaskTexts == { <<"", " ">>, <<" ", "true">>, <<"false", "true">>, <<"'">> }

\* A file is its identity and its text; NoFile is the absence of a file.
NoFile == [id |-> 0, text |-> <<>>]
NoTask == 0
NoRc == -1

\* A log file is the sequence of the blocks written to it.  A block is the
\* header "CMD: <cmd>", the output of the child, the footer
\* "RETURN_CODE: <val>" or the timing block with "DURATION_S: <val>"; Hole is
\* what a write past the end of a file leaves before it.  task is the name
\* of the task the block was written for.
Hole == [k |-> "HOLE", task |-> NoTask, cmd |-> "", val |-> 0]
Header(n, c) == [k |-> "CMD", task |-> n, cmd |-> c, val |-> 0]
Output(n) == [k |-> "OUT", task |-> n, cmd |-> "", val |-> 0]
Footer(n, r) == [k |-> "RETURN_CODE", task |-> n, cmd |-> "", val |-> r]
Timing(n, d) == [k |-> "TIMING", task |-> n, cmd |-> "", val |-> d]

\* No line about a final move was printed.
NoReport == [wid |-> -1, kind |-> "", name |-> NoTask, target |-> ""]

VARIABLES
    args,          \* the parsed command line: workers, failed, idle_timeout, jitter
    fs,            \* fs[d][n]: the file named n in directory d, or NoFile
    pc,            \* pc[w]: where worker w is in worker_loop
    entries,       \* entries[w]: the candidates left in claim_one_task's loop
    task_path,     \* task_path[w]: the name of the task worker w holds
    cmd,           \* cmd[w]: the command worker w read from its task file
    rc,            \* rc[w]: the return code of worker w's command
    idle_elapsed,  \* idle_elapsed[w]: time.monotonic() - idle_start, capped
    sleep_left,    \* sleep_left[w]: what is left of worker w's time.sleep()
    sup,           \* main(): its position, len(procs), processes joined
    logs,          \* logs[s]: the blocks of the file s.log of the logs directory
    stem,          \* stem[n]: task_path.stem of the task file named n
    fpos,          \* fpos[w]: the position of the log file run_command has open
    t0,            \* t0[w]: the clock, as idle_elapsed, when run_command was called
    report,        \* the line about a final move printed in the last step
    \* history variables, read by the properties only
    placed,        \* names ever put into the tasks directory
    original,      \* names in the tasks directory at the start
    enqueued,      \* number of files the operator added after the start
    claims,        \* claims[n]: successful claims of name n
    runs,          \* runs[n]: calls of run_command for name n
    result,        \* result[n]: "none", "empty", "zero" or "nonzero"
    started,       \* number of times a worker_loop was started
    lost,          \* lost[w]: renames that failed in w's current claim call
    waited,        \* waited[w]: ticks w has lived while no task was ever placed
    idle_time      \* idle_time[w]: ticks since w last held a task, capped

vars == <<args, fs, pc, entries, task_path, cmd, rc, idle_elapsed, sleep_left,
          sup, placed, original, enqueued, claims, runs, result, started,
          lost, waited, logs, stem, fpos, t0, report, idle_time>>


\* ------------------------------------------------------------- helpers
Min(a, b) == IF a < b THEN a ELSE b

\* sorted(): the names of S in ascending order.
RECURSIVE SortedSeq(_)
SortedSeq(S) ==
    IF S = {} THEN <<>>
    ELSE LET m == CHOOSE x \in S : \A y \in S : x <= y
         IN  <<m>> \o SortedSeq(S \ {m})

\* The largest value waited[w] takes: one more than any idle bound.
WaitCap == MaxIdleTimeout + Poll + MaxJitter + 1

\* The number of workers main() runs: one in the caller when --workers <= 1.
PoolSize == IF args.workers <= 1 THEN 1 ELSE args.workers
Pool == 0..(PoolSize - 1)

InDir(d, n) == fs[d][n] # NoFile

\* ------------------------------------------------ read_first_nonempty_line
\* Mutant: a line of spaces is kept as it is.
strip_exact(line) == line

strip(line) == IF line \in BlankLines THEN "" ELSE line

RECURSIVE FirstNonEmpty(_)
FirstNonEmpty(lines) ==
    IF lines = <<>> THEN ""
    ELSE IF strip(Head(lines)) # "" THEN strip(Head(lines))
    ELSE FirstNonEmpty(Tail(lines))

\* read_text() raises when the file is gone; the exception is swallowed.
read_first_nonempty_line(f) ==
    IF f = NoFile THEN "" ELSE FirstNonEmpty(f.text)

\* ------------------------------------------------------------ atomic_move
\* Mutant: the file is copied to dst and stays in src.
Moved_copy(f, src, dst, n) ==
    IF src = dst THEN f ELSE [f EXCEPT ![dst][n] = f[src][n]]

\* The directory tree after the file named n went from src to dst, taking
\* the place of a file of that name in dst.
Moved(f, src, dst, n) ==
    IF src = dst THEN f
    ELSE [f EXCEPT ![dst][n] = f[src][n], ![src][n] = NoFile]

\* Path.rename: replaces an existing target on POSIX (replaces = TRUE) and
\* raises FileExistsError, an OSError, on Windows.
rename(f, src, dst, n, replaces) ==
    IF f[src][n] = NoFile THEN [exc |-> "FileNotFoundError", fs |-> f]
    ELSE IF f[dst][n] # NoFile /\ ~replaces THEN [exc |-> "OSError", fs |-> f]
    ELSE [exc |-> "none", fs |-> Moved(f, src, dst, n)]

\* os.replace: replaces an existing target on every platform.
os_replace(f, src, dst, n) ==
    IF f[src][n] = NoFile THEN [exc |-> "FileNotFoundError", fs |-> f]
    ELSE [exc |-> "none", fs |-> Moved(f, src, dst, n)]

\* Mutant: a missing source is not told from a move that was made.
atomic_move_blind(f, src, dst, n, replaces) ==
    IF f[src][n] = NoFile THEN [ok |-> TRUE, fs |-> f]
    ELSE [ok |-> TRUE, fs |-> Moved(f, src, dst, n)]

\* Mutant: the move fails when dst holds a file of that name.
atomic_move_noclobber(f, src, dst, n, replaces) ==
    IF f[src][n] = NoFile \/ f[dst][n] # NoFile THEN [ok |-> FALSE, fs |-> f]
    ELSE [ok |-> TRUE, fs |-> Moved(f, src, dst, n)]

atomic_move(f, src, dst, n, replaces) ==
    LET r == rename(f, src, dst, n, replaces) IN
    IF r.exc = "none" THEN [ok |-> TRUE, fs |-> r.fs]
    ELSE IF r.exc = "FileNotFoundError" THEN [ok |-> FALSE, fs |-> f]
    ELSE LET q == os_replace(f, src, dst, n) IN
         IF q.exc = "none" THEN [ok |-> TRUE, fs |-> q.fs]
         ELSE [ok |-> FALSE, fs |-> f]

\* ------------------------------------------------------------------ Init
\* The state when main() starts, with --logs given or not (logging) and the
\* stems of the task file names taken from stems.
Start(logging, stems) ==
    /\ args \in [workers : 0..MaxWorkers, failed : BOOLEAN, shell : {FALSE},
                 idle_timeout : 0..MaxIdleTimeout, jitter : 0..MaxJitter,
                 logs : logging]
    /\ stem \in stems
    /\ logs = [s \in Names |-> <<>>]
    /\ fpos = [w \in Workers |-> 0]
    /\ t0 = [w \in Workers |-> 0]
    /\ report = NoReport
    /\ idle_time = [w \in Workers |-> 0]
    /\ \E t \in [Names -> TaskTexts \cup {<<>>}] :
          /\ fs = [d \in Dirs |-> [n \in Names |->
                     IF d = "tasks" /\ t[n] # <<>>
                     THEN [id |-> n, text |-> t[n]] ELSE NoFile]]
          /\ placed = {n \in Names : t[n] # <<>>}
          /\ original = {n \in Names : t[n] # <<>>}
    /\ pc = [w \in Workers |-> "NOTSTARTED"]
    /\ entries = [w \in Workers |-> <<>>]
    /\ task_path = [w \in Workers |-> NoTask]
    /\ cmd = [w \in Workers |-> ""]
    /\ rc = [w \in Workers |-> NoRc]
    /\ idle_elapsed = [w \in Workers |-> 0]
    /\ sleep_left = [w \in Workers |-> 0]
    /\ sup = [pc |-> "main", procs |-> 0, joined |-> 0]
    /\ enqueued = 0
    /\ claims = [n \in Names |-> 0]
    /\ runs = [n \in Names |-> 0]
    /\ result = [n \in Names |-> "none"]
    /\ started = 0
    /\ lost = [w \in Workers |-> 0]
    /\ waited = [w \in Workers |-> 0]

\* Every task file name has a stem of its own, as the names "<name>.txt" of
\* the generator have.
OwnStems == {[n \in Names |-> n]}

\* Names such as "a.txt" and "a.sh" share the stem "a".
AnyStems == {f \in [Names -> Names] : \A n \in Names : f[n] <= n}

\* --logs defaults to None: no log files.
Init == Start({FALSE}, OwnStems)

\* --logs is given.
InitLog == Start({TRUE}, AnyStems)

\* -------------------------------------------------------------- log files
\* open(mode "w"): the file is created or truncated.
open_w(log) == <<>>

\* f.write at position pos of a file not opened for appending: the block
\* replaces what is there, and a position past the end leaves a hole.
write(log, pos, block) ==
    IF pos < Len(log) THEN [log EXCEPT ![pos + 1] = block]
    ELSE log \o [i \in 1..(pos - Len(log)) |-> Hole] \o <<block>>

\* open(mode "a") and f.write: the block goes to the end of the file.
append(log, block) == log \o <<block>>

\* ------------------------------------------------------------ run_command
\* shlex.split: raises ValueError on a line with an unclosed quotation.
shlex_split(cmdline) == IF cmdline = "'" THEN "ValueError" ELSE "args"

\* Whether run_command raises instead of returning a return code: only
\* without --shell, where the line is split into arguments first.
run_command_raises(cmdline) ==
    ~args.shell /\ shlex_split(cmdline) = "ValueError"

\* p.returncode: the child's exit code (a shell reports a syntax error as 2).
returncode(cmdline) ==
    IF cmdline = "true" THEN 0
    ELSE IF cmdline = "false" THEN 1
    ELSE 2

\* ------------------------------------------------------------ worker_loop
\* Mutant: the test for idle_timeout > 0 is missing.
IdleTimeoutReached_nozero(w) == idle_elapsed[w] >= args.idle_timeout

\* idle_timeout > 0 and (time.monotonic() - idle_start) >= idle_timeout
IdleTimeoutReached(w) ==
    args.idle_timeout > 0 /\ idle_elapsed[w] >= args.idle_timeout

\* Mutant: the sleep is twice as long.
SleepTimes_long == (2 * Poll)..(2 * (Poll + args.jitter))

\* time.sleep(poll + random.uniform(0, jitter)): the possible durations.
SleepTimes == Poll..(Poll + args.jitter)

\* task_path is None: return on idle timeout, else sleep and continue.
NoTaskAvailable(w, d) ==
    IF IdleTimeoutReached(w)
    THEN /\ pc' = [pc EXCEPT ![w] = "TERMINATED"]
         /\ sleep_left' = sleep_left
    ELSE /\ pc' = [pc EXCEPT ![w] = "IDLE"]
         /\ sleep_left' = [sleep_left EXCEPT ![w] = d]

\* Mutant: the loop ends at the first rename that fails.
NextCandidates_stop(es) == <<>>

\* The candidates the loop of claim_one_task goes on with after a rename
\* of the first one failed.
NextCandidates(es) == Tail(es)

\* claim_one_task, its listing: entries = sorted(files of tasks_dir).
ListTasks(w) ==
    /\ pc[w] = "IDLE"
    /\ sleep_left[w] = 0
    /\ LET listing == SortedSeq({n \in Names : InDir("tasks", n)}) IN
       IF listing = <<>>
       THEN /\ \E d \in SleepTimes : NoTaskAvailable(w, d)
            /\ entries' = entries
       ELSE /\ pc' = [pc EXCEPT ![w] = "CLAIMING"]
            /\ entries' = [entries EXCEPT ![w] = listing]
            /\ sleep_left' = sleep_left
    /\ lost' = [lost EXCEPT ![w] = 0]
    /\ report' = NoReport
    /\ UNCHANGED <<args, fs, task_path, cmd, rc, idle_elapsed, sup, placed,
                   original, enqueued, claims, runs, result, started, waited,
                   logs, stem, fpos, t0, idle_time>>

\* claim_one_task, one turn of its loop: atomic_move(src, running/src.name).
\* A success returns the handle and worker_loop resets idle_start.
TryMove(w) ==
    /\ pc[w] = "CLAIMING"
    /\ \E replaces \in BOOLEAN, d \in SleepTimes :
         LET src == Head(entries[w])
             m == atomic_move(fs, "tasks", "running", src, replaces)
         IN  IF m.ok
             THEN /\ fs' = m.fs
                  /\ pc' = [pc EXCEPT ![w] = "CLAIMED"]
                  /\ task_path' = [task_path EXCEPT ![w] = src]
                  /\ entries' = [entries EXCEPT ![w] = <<>>]
                  /\ idle_elapsed' = [idle_elapsed EXCEPT ![w] = 0]
                  /\ claims' = [claims EXCEPT ![src] = @ + 1]
                  /\ UNCHANGED <<sleep_left, lost>>
             ELSE /\ fs' = m.fs
                  /\ lost' = [lost EXCEPT ![w] = @ + 1]
                  /\ entries' = [entries EXCEPT ![w] = NextCandidates(@)]
                  /\ IF NextCandidates(entries[w]) = <<>>
                     THEN NoTaskAvailable(w, d)
                     ELSE UNCHANGED <<pc, sleep_left>>
                  /\ UNCHANGED <<task_path, idle_elapsed, claims>>
    /\ report' = NoReport
    /\ UNCHANGED <<args, cmd, rc, sup, placed, original, enqueued, runs,
                   result, started, waited,
                   logs, stem, fpos, t0, idle_time>>

\* After the post-move delay: cmd = read_first_nonempty_line(task_path).
\* No command: straight to the final move.  Otherwise t0 is taken and
\* run_command is called: with a log file it opens <stem>.log with mode "w"
\* and writes the header; an exception it raises ends worker_loop.
ReadTask(w) ==
    /\ pc[w] = "CLAIMED"
    /\ LET n == task_path[w]
           c == read_first_nonempty_line(fs["running"][n])
       IN  /\ cmd' = [cmd EXCEPT ![w] = c]
           /\ IF c = ""
              THEN /\ pc' = [pc EXCEPT ![w] = "FINALIZING"]
                   /\ result' = [result EXCEPT ![n] = "empty"]
                   /\ runs' = runs
                   /\ UNCHANGED <<logs, fpos, t0>>
              ELSE /\ runs' = [runs EXCEPT ![n] = @ + 1]
                   /\ result' = result
                   /\ t0' = [t0 EXCEPT ![w] = idle_elapsed[w]]
                   /\ pc' = [pc EXCEPT ![w] =
                         IF run_command_raises(c) THEN "CRASHED"
                         ELSE "EXECUTING"]
                   /\ IF args.logs
                      THEN /\ logs' = [logs EXCEPT ![stem[n]] =
                                         write(open_w(@), 0, Header(n, c))]
                           /\ fpos' = [fpos EXCEPT ![w] =
                                         IF run_command_raises(c) THEN 0
                                         ELSE 1]
                      ELSE UNCHANGED <<logs, fpos>>
    /\ report' = NoReport
    /\ UNCHANGED <<args, fs, entries, task_path, rc, idle_elapsed, sleep_left,
                   sup, placed, original, enqueued, claims, started, lost,
                   waited, stem, idle_time>>

\* The child process exits: rc = run_command(...).  With a log file the
\* output of the child is in the file, at the position the header left, and
\* the footer follows it.
CommandExits(w) ==
    /\ pc[w] = "EXECUTING"
    /\ rc' = [rc EXCEPT ![w] = returncode(cmd[w])]
    /\ IF args.logs
       THEN /\ logs' = [logs EXCEPT ![stem[task_path[w]]] =
                   write(write(@, fpos[w], Output(task_path[w])),
                         fpos[w] + 1,
                         Footer(task_path[w], returncode(cmd[w])))]
            /\ fpos' = [fpos EXCEPT ![w] = 0]
       ELSE UNCHANGED <<logs, fpos>>
    /\ result' = [result EXCEPT ![task_path[w]] =
                     IF returncode(cmd[w]) = 0 THEN "zero" ELSE "nonzero"]
    /\ pc' = [pc EXCEPT ![w] = "FINALIZING"]
    /\ report' = NoReport
    /\ UNCHANGED <<args, fs, entries, task_path, cmd, idle_elapsed,
                   sleep_left, sup, placed, original, enqueued, claims, runs,
                   started, lost, waited, stem, t0, idle_time>>

\* target_dir of a task without a command.
EmptyTarget == IF args.failed THEN "failed" ELSE "finished"

\* Mutant: the test of the return code is inverted.
ResultTarget_swapped(r) ==
    IF r # 0 THEN "finished"
    ELSE IF args.failed THEN "failed" ELSE "finished"

\* Mutant: a task whose command failed is not moved.
ResultTarget_stay(r) == IF r = 0 THEN "finished" ELSE "running"

\* Mutant: a task whose command failed goes back to the tasks directory.
ResultTarget_retry(r) == IF r = 0 THEN "finished" ELSE "tasks"

\* target_dir of an executed task, by its return code.
ResultTarget(r) ==
    IF r = 0 THEN "finished"
    ELSE IF args.failed THEN "failed" ELSE "finished"

\* The line worker_loop prints after the final move: "tarefa vazia: <name>
\* -> <target>" or "fim ... <name> -> <target_dir>/<name>", whatever
\* atomic_move returned.
FinalReport(w, target, moved) ==
    [wid |-> w, kind |-> IF cmd[w] = "" THEN "tarefa vazia" ELSE "fim",
     name |-> task_path[w], target |-> target]

\* atomic_move(task_path, target); its result is not looked at.  After an
\* executed task the timing block is appended to the log, with
\* duracao_s = t1 - t0.  The line about the move is printed and the loop
\* goes on with the next claim; idle_start stays as the claim set it.
Finalize(w) ==
    /\ pc[w] = "FINALIZING"
    /\ \E replaces \in BOOLEAN :
         LET target == IF cmd[w] = "" THEN EmptyTarget ELSE ResultTarget(rc[w])
             m == atomic_move(fs, "running", target, task_path[w], replaces)
         IN  /\ fs' = m.fs
             /\ report' = FinalReport(w, target, m.ok)
    /\ logs' = IF cmd[w] # "" /\ args.logs
               THEN [logs EXCEPT ![stem[task_path[w]]] =
                       append(@, Timing(task_path[w],
                                        idle_elapsed[w] - t0[w]))]
               ELSE logs
    /\ pc' = [pc EXCEPT ![w] = "IDLE"]
    /\ task_path' = [task_path EXCEPT ![w] = NoTask]
    /\ cmd' = [cmd EXCEPT ![w] = ""]
    /\ rc' = [rc EXCEPT ![w] = NoRc]
    /\ t0' = [t0 EXCEPT ![w] = 0]
    /\ idle_time' = [idle_time EXCEPT ![w] = 0]
    /\ UNCHANGED <<args, entries, idle_elapsed, sleep_left, sup, placed,
                   original, enqueued, claims, runs, result, started, lost,
                   waited, stem, fpos>>

\* --------------------------------------------------------------- main
\* args.workers <= 1: worker_loop(wid=0) runs in the caller.
MainInline ==
    /\ sup.pc = "main"
    /\ args.workers <= 1
    /\ sup' = [sup EXCEPT !.pc = "inline"]
    /\ pc' = [pc EXCEPT ![0] = "IDLE"]
    /\ started' = started + 1
    /\ report' = NoReport
    /\ UNCHANGED <<args, fs, entries, task_path, cmd, rc, idle_elapsed,
                   sleep_left, placed, original, enqueued, claims, runs,
                   result, lost, waited,
                   logs, stem, fpos, t0, idle_time>>

\* worker_loop returned in the caller, or raised: so does main.
InlineEnds ==
    /\ sup.pc = "inline"
    /\ pc[0] \in {"TERMINATED", "CRASHED"}
    /\ sup' = [sup EXCEPT !.pc = IF pc[0] = "TERMINATED" THEN "returned"
                                   ELSE "raised"]
    /\ report' = NoReport
    /\ UNCHANGED <<args, fs, pc, entries, task_path, cmd, rc, idle_elapsed,
                   sleep_left, placed, original, enqueued, claims, runs,
                   result, started, lost, waited,
                   logs, stem, fpos, t0, idle_time>>

\* Mutant: main starts a crashed worker again.
Spawn_restart ==
    /\ \/ /\ sup.pc \in {"main", "spawn"}
          /\ args.workers > 1
          /\ sup.procs < args.workers
          /\ pc' = [pc EXCEPT ![sup.procs] = "IDLE"]
          /\ sup' = [sup EXCEPT !.procs = @ + 1,
                                !.pc = IF sup.procs + 1 = args.workers
                                       THEN "join" ELSE "spawn"]
          /\ task_path' = task_path
       \/ /\ sup.pc = "join"
          /\ \E w \in Pool :
                /\ pc[w] = "CRASHED"
                /\ pc' = [pc EXCEPT ![w] = "IDLE"]
                /\ task_path' = [task_path EXCEPT ![w] = NoTask]
          /\ sup' = sup
    /\ started' = started + 1
    /\ report' = NoReport
    /\ UNCHANGED <<args, fs, entries, cmd, rc, idle_elapsed, sleep_left,
                   placed, original, enqueued, claims, runs, result, lost,
                   waited, logs, stem, fpos, t0, idle_time>>

\* for wid in range(args.workers): Process(target=worker_loop).start()
Spawn ==
    /\ sup.pc \in {"main", "spawn"}
    /\ args.workers > 1
    /\ sup.procs < args.workers
    /\ pc' = [pc EXCEPT ![sup.procs] = "IDLE"]
    /\ sup' = [sup EXCEPT !.procs = @ + 1,
                          !.pc = IF sup.procs + 1 = args.workers
                                 THEN "join" ELSE "spawn"]
    /\ started' = started + 1
    /\ report' = NoReport
    /\ UNCHANGED <<args, fs, entries, task_path, cmd, rc, idle_elapsed,
                   sleep_left, placed, original, enqueued, claims, runs,
                   result, lost, waited,
                   logs, stem, fpos, t0, idle_time>>

\* Mutant: join does not wait for the process.
Exited_nowait(w) == pc[w] # "NOTSTARTED"

\* Whether p.join() of process w returns: the process has exited.
Exited(w) == pc[w] \in {"TERMINATED", "CRASHED"}

\* for p in procs: p.join(); main returns after the last one.
Join ==
    /\ sup.pc = "join"
    /\ sup.joined < sup.procs
    /\ Exited(sup.joined)
    /\ sup' = [sup EXCEPT !.joined = @ + 1,
                          !.pc = IF sup.joined + 1 = sup.procs
                                 THEN "returned" ELSE "join"]
    /\ report' = NoReport
    /\ UNCHANGED <<args, fs, pc, entries, task_path, cmd, rc, idle_elapsed,
                   sleep_left, placed, original, enqueued, claims, runs,
                   result, started, lost, waited,
                   logs, stem, fpos, t0, idle_time>>

\* ------------------------------------------------------------ environment
\* A live worker that is in a time.sleep() or waits for its child.
Waiting(w) ==
    \/ pc[w] \in {"CLAIMED", "EXECUTING"}
    \/ pc[w] = "IDLE" /\ sleep_left[w] > 0

Live(w) == pc[w] \notin {"NOTSTARTED", "TERMINATED", "CRASHED"}

\* One tick of the monotonic clock.
Tick ==
    /\ sup.pc \notin {"main", "spawn"}
    /\ \A w \in Workers : Live(w) => Waiting(w)
    /\ \E w \in Workers : Live(w)
    /\ sleep_left' = [w \in Workers |->
          IF sleep_left[w] > 0 THEN sleep_left[w] - 1 ELSE 0]
    /\ idle_elapsed' = [w \in Workers |->
          IF Live(w) THEN Min(idle_elapsed[w] + 1, args.idle_timeout)
          ELSE idle_elapsed[w]]
    /\ waited' = [w \in Workers |->
          IF Live(w) /\ placed = {} THEN Min(waited[w] + 1, WaitCap)
          ELSE waited[w]]
    /\ idle_time' = [w \in Workers |->
          IF Live(w) /\ task_path[w] = NoTask
          THEN Min(idle_time[w] + 1, args.idle_timeout)
          ELSE idle_time[w]]
    /\ report' = NoReport
    /\ UNCHANGED <<args, fs, pc, entries, task_path, cmd, rc, sup, placed,
                   original, enqueued, claims, runs, result, started, lost,
                   logs, stem, fpos, t0>>

\* The operator puts a file with a new name into the tasks directory.
Enqueue(n, text) ==
    /\ enqueued < MaxEnqueue
    /\ n \notin placed
    /\ fs' = [fs EXCEPT !["tasks"][n] = [id |-> n, text |-> text]]
    /\ placed' = placed \cup {n}
    /\ enqueued' = enqueued + 1
    /\ report' = NoReport
    /\ UNCHANGED <<args, pc, entries, task_path, cmd, rc, idle_elapsed,
                   sleep_left, sup, original, claims, runs, result, started,
                   lost, waited,
                   logs, stem, fpos, t0, idle_time>>

\* Operator error: a file whose name was used before is put into the tasks
\* directory while the name is not there.
Requeue(n, text) ==
    /\ enqueued < MaxEnqueue
    /\ n \in placed
    /\ ~InDir("tasks", n)
    /\ fs' = [fs EXCEPT !["tasks"][n] =
                 [id |-> NumNames + enqueued + 1, text |-> text]]
    /\ enqueued' = enqueued + 1
    /\ report' = NoReport
    /\ UNCHANGED <<args, pc, entries, task_path, cmd, rc, idle_elapsed,
                   sleep_left, sup, placed, original, claims, runs, result,
                   started, lost, waited,
                   logs, stem, fpos, t0, idle_time>>

\* The process of worker w is killed from outside (a signal, the host going
\* down): worker_loop stops where it is and nothing it holds is released.
Kill(w) ==
    /\ Live(w)
    /\ pc' = [pc EXCEPT ![w] = "CRASHED"]
    /\ report' = NoReport
    /\ UNCHANGED <<args, fs, entries, task_path, cmd, rc, idle_elapsed,
                   sleep_left, sup, placed, original, enqueued, claims, runs,
                   result, started, lost, waited, logs, stem, fpos, t0,
                   idle_time>>

\* ------------------------------------------------------- specifications
WorkerStep(w) ==
    \/ ListTasks(w)
    \/ TryMove(w)
    \/ ReadTask(w)
    \/ CommandExits(w)
    \/ Finalize(w)

MainStep == MainInline \/ InlineEnds \/ Spawn \/ Join

\* Task names are unique: every file put into the queue has a new name.
Next ==
    \/ \E w \in Workers : WorkerStep(w)
    \/ MainStep
    \/ Tick
    \/ \E n \in Names, text \in TaskTexts : Enqueue(n, text)

Spec == Init /\ [][Next]_vars

\* --idle-timeout is positive, nothing is put into the tasks directory after
\* the start and no worker is killed.  The operating system schedules every
\* process that can run, every child process exits and the clock goes on.
InitFair == Init /\ args.idle_timeout > 0

NextFair ==
    \/ \E w \in Workers : WorkerStep(w)
    \/ MainStep
    \/ Tick

Fairness ==
    /\ \A w \in Workers : WF_vars(WorkerStep(w))
    /\ WF_vars(MainStep)
    /\ WF_vars(Tick)

SpecFair == InitFair /\ [][NextFair]_vars /\ Fairness

\* Worker processes may be killed.
NextKill ==
    \/ \E w \in Workers : WorkerStep(w)
    \/ MainStep
    \/ Tick
    \/ \E n \in Names, text \in TaskTexts : Enqueue(n, text)
    \/ \E w \in Workers : Kill(w)

SpecKill == Init /\ [][NextKill]_vars

\* --logs is given and task file names may share a stem.
SpecLog == InitLog /\ [][Next]_vars

\* Task names may be used again (an operator error).
NextDup ==
    \/ \E w \in Workers : WorkerStep(w)
    \/ MainStep
    \/ Tick
    \/ \E n \in Names, text \in TaskTexts : Enqueue(n, text)
    \/ \E n \in Names, text \in TaskTexts : Requeue(n, text)

SpecDup == Init /\ [][NextDup]_vars

\* ================================================================ claims
\* The step of worker w's claim_one_task loop: one rename attempt.
MoveStep(w) ==
    /\ pc[w] = "CLAIMING"
    /\ pc'[w] # pc[w] \/ entries'[w] # entries[w]

\* The step in which worker w's claim_one_task returns None.
ReturnsNone(w) ==
    \/ /\ pc[w] = "CLAIMING"
       /\ pc'[w] \in {"IDLE", "TERMINATED"}
    \/ /\ pc[w] = "IDLE"
       /\ sleep_left[w] = 0
       /\ pc'[w] = "TERMINATED" \/ (pc'[w] = "IDLE" /\ sleep_left'[w] > 0)

Holders(n) == {w \in Workers : task_path[w] = n}

\* C1: at most one claim_one_task call ever returns a handle for a task
\* name, whatever the interleaving: a name leaves the tasks directory by
\* exactly one successful claim, and at most one worker holds it.
C1_AtMostOneClaim ==
    \A n \in Names :
        /\ claims[n] <= 1
        /\ Cardinality(Holders(n)) <= 1
        /\ InDir("tasks", n) => claims[n] = 0
        /\ (n \in placed /\ ~InDir("tasks", n)) => claims[n] = 1

\* Two workers raced for the only file: one holds it, the other one's rename
\* failed and its call returned None.
C1_Witness ==
    \E n \in Names, w1, w2 \in Workers :
        /\ w1 # w2
        /\ placed = {n}
        /\ task_path[w1] = n
        /\ lost[w2] = 1
        /\ pc[w2] = "IDLE"

\* C2: every task file put into the tasks directory is in exactly one of
\* the four directories, in every reachable state.
C2_ExactlyOneDir ==
    \A n \in Names :
        /\ n \in placed =>
              /\ Cardinality({d \in Dirs : InDir(d, n)}) = 1
              /\ \A d \in Dirs : InDir(d, n) => fs[d][n].id = n
        /\ n \notin placed => \A d \in Dirs : ~InDir(d, n)

C2_Witness ==
    \E n, m \in Names :
        /\ InDir("running", n)
        /\ InDir("failed", m)
        /\ claims[n] = 1

\* C3: once every worker of the pool is TERMINATED, each original task is in
\* exactly one of finished and failed, and in neither tasks nor running; a
\* file in running is held by a worker that has not terminated.
AllTerminated == \A w \in Pool : pc[w] = "TERMINATED"

C4_ResultRouting ==
    \A n \in Names :
        /\ (result[n] = "zero" /\ ~InDir("running", n)) =>
              InDir("finished", n)
        /\ (result[n] = "nonzero" /\ ~InDir("running", n)) =>
              InDir(IF args.failed THEN "failed" ELSE "finished", n)
        /\ InDir("failed", n) => result[n] # "zero"

C4_Witness ==
    \E n, m \in Names :
        /\ result[n] = "zero" /\ InDir("finished", n)
        /\ result[m] = "nonzero" /\ InDir("failed", m)

C4_WitnessNoFailedDir ==
    \E m \in Names :
        ~args.failed /\ result[m] = "nonzero" /\ InDir("finished", m)

\* A text without a command: every line is blank.
Blank(text) == \A i \in 1..Len(text) : text[i] \in BlankLines

\* C5: a claimed task without a command goes to failed (to finished without
\* --failed), run_command is never called for it, and the worker is IDLE
\* again after the move.
C5_EmptyState ==
    \A n \in Names :
        /\ \A d \in Dirs : (InDir(d, n) /\ Blank(fs[d][n].text)) =>
              /\ runs[n] = 0
              /\ result[n] \in {"none", "empty"}
              /\ claims[n] = 1 => (d = "running" \/ result[n] = "empty")
        /\ result[n] = "empty" =>
              /\ runs[n] = 0
              /\ ~InDir("running", n) =>
                    InDir(IF args.failed THEN "failed" ELSE "finished", n)

C5_EmptyStep ==
    \A w \in Workers :
        (pc[w] = "FINALIZING" /\ cmd[w] = "" /\ pc'[w] # pc[w]) =>
            /\ pc'[w] = "IDLE"
            /\ sleep_left'[w] = 0
            /\ fs'["running"][task_path[w]] = NoFile

C5_EmptyRouting == []C5_EmptyState /\ [][C5_EmptyStep]_vars

C5_Witness ==
    \E n \in Names, w \in Workers :
        /\ result[n] = "empty"
        /\ InDir("failed", n)
        /\ args.workers = 1
        /\ pc[w] = "CLAIMING"
        /\ claims[n] = 1

\* C6: with idle-timeout T > 0 and a tasks directory that stays empty, a
\* worker is TERMINATED no later than T + poll + jitter after its start.
C6_IdleBound ==
    (args.idle_timeout > 0 /\ placed = {}) =>
        \A w \in Workers :
            waited[w] <= args.idle_timeout + Poll + args.jitter

C6_Witness ==
    \E w \in Workers :
        /\ pc[w] = "TERMINATED"
        /\ placed = {}
        /\ args.idle_timeout = MaxIdleTimeout
        /\ waited[w] > args.idle_timeout

\* C7: with idle-timeout 0 no worker is ever TERMINATED, and every claim
\* call that returns None is followed by a sleep of poll..poll+jitter.
C7_NeverState ==
    args.idle_timeout = 0 => \A w \in Workers : pc[w] # "TERMINATED"

C7_NeverStep ==
    \A w \in Workers :
        (args.idle_timeout = 0 /\ ReturnsNone(w)) =>
            /\ pc'[w] = "IDLE"
            /\ sleep_left'[w] \in SleepTimes

C7_NeverTerminates == []C7_NeverState /\ [][C7_NeverStep]_vars

C7_Witness ==
    \E w \in Workers :
        /\ args.idle_timeout = 0
        /\ placed = {}
        /\ pc[w] = "IDLE"
        /\ waited[w] = WaitCap

\* C8: main has returned only when none of its workers is still running;
\* it starts PoolSize workers, each once.
C8_Supervisor ==
    /\ sup.pc = "returned" => \A w \in Workers : ~Live(w)
    /\ sup.pc = "returned" =>
          \A w \in Pool : pc[w] \in {"TERMINATED", "CRASHED"}
    /\ started <= PoolSize
    /\ started = Cardinality({w \in Workers : pc[w] # "NOTSTARTED"})
    /\ sup.pc \in {"inline", "join", "returned", "raised"} =>
          started = PoolSize

C8_Witness ==
    /\ sup.pc = "returned"
    /\ args.workers = MaxWorkers
    /\ started = MaxWorkers

C8_WitnessInline ==
    /\ sup.pc = "returned"
    /\ args.workers = 0
    /\ started = 1

\* C9: a rename that fails because the file is gone does not end the claim
\* call: the call goes on with the next candidate, returns None only when
\* the listing was empty or the rename failed for its last candidate too,
\* and returns a handle when the candidate is still in the tasks directory.
C9_Step ==
    \A w \in Workers :
        /\ MoveStep(w) =>
              LET src == Head(entries[w]) IN
              IF InDir("tasks", src)
              THEN /\ pc'[w] = "CLAIMED"
                   /\ task_path'[w] = src
                   /\ fs'["running"][src] = fs["tasks"][src]
              ELSE /\ fs' = fs
                   /\ lost'[w] = lost[w] + 1
                   /\ IF Len(entries[w]) > 1
                      THEN /\ pc'[w] = "CLAIMING"
                           /\ entries'[w] = Tail(entries[w])
                      ELSE pc'[w] \in {"IDLE", "TERMINATED"}
        /\ ReturnsNone(w) =>
              IF pc[w] = "IDLE"
              THEN \A n \in Names : ~InDir("tasks", n)
              ELSE Len(entries[w]) = 1 /\ ~InDir("tasks", Head(entries[w]))

C9_RaceLossGoesOn == [][C9_Step]_vars

C9_Witness ==
    \E w \in Workers :
        /\ pc[w] = "CLAIMED"
        /\ lost[w] = 1
        /\ task_path[w] = 2

\* C10, as the specification states it: a claim of a candidate whose name
\* is in the running directory fails and leaves both files alone.
C10_Original ==
    [][\A w \in Workers :
          (/\ MoveStep(w)
           /\ InDir("tasks", Head(entries[w]))
           /\ InDir("running", Head(entries[w]))) =>
              /\ pc'[w] # "CLAIMED"
              /\ fs' = fs]_vars

\* C10, amended: a claim of a candidate whose name is in the running
\* directory succeeds; the candidate takes the place of the file that was in
\* running, which is then in no directory.
C10_Replaces ==
    [][\A w \in Workers :
          (/\ MoveStep(w)
           /\ InDir("tasks", Head(entries[w]))
           /\ InDir("running", Head(entries[w]))) =>
              LET src == Head(entries[w]) IN
              /\ pc'[w] = "CLAIMED"
              /\ task_path'[w] = src
              /\ fs'["running"][src] = fs["tasks"][src]
              /\ fs'["tasks"][src] = NoFile
              /\ \A d \in Dirs : fs'[d][src] # fs["running"][src]]_vars

\* Two workers hold the same name: the second claim replaced the file of
\* the first.
C10_Witness ==
    \E n \in Names, w1, w2 \in Workers :
        /\ w1 # w2
        /\ task_path[w1] = n
        /\ task_path[w2] = n
        /\ pc[w2] = "CLAIMED"
        /\ claims[n] = 2
        /\ fs["running"][n].id > NumNames

\* The command of the task file named n, wherever the file is.
CommandOf(n) ==
    LET d == CHOOSE d \in Dirs : InDir(d, n)
    IN  read_first_nonempty_line(fs[d][n])

\* The log of an executed task that has left the running directory: header,
\* output, footer and timing block of that task, in this order, the footer
\* with the return code the task was routed by.
FullLog(n, log) ==
    /\ Len(log) = 4
    /\ log[1] = Header(n, CommandOf(n))
    /\ log[2] = Output(n)
    /\ log[3].k = "RETURN_CODE" /\ log[3].task = n
    /\ (log[3].val = 0) <=> (result[n] = "zero")
    /\ InDir(ResultTarget(log[3].val), n)
    /\ log[4].k = "TIMING" /\ log[4].task = n
    /\ log[4].val >= 0

\* C11: with --logs, the log of every executed task is, in this order, the
\* header with the command, the output of the child, the footer with the
\* return code the task is routed by and the timing block with a duration
\* that is not negative; the timing block is not there before the child
\* has exited.
C11_LogFidelity ==
    args.logs =>
      \A n \in Names :
        LET log == logs[stem[n]] IN
        /\ (runs[n] > 0 /\ Holders(n) = {} /\ \E d \in Dirs : InDir(d, n))
              => FullLog(n, log)
        /\ \A w \in Holders(n) :
              /\ pc[w] = "EXECUTING" => log = <<Header(n, cmd[w])>>
              /\ (pc[w] = "FINALIZING" /\ cmd[w] # "") =>
                    log = <<Header(n, cmd[w]), Output(n), Footer(n, rc[w])>>
        /\ \A i \in 1..Len(log) :
              (log[i].k = "TIMING" /\ log[i].task = n) =>
                  result[n] \in {"zero", "nonzero"}

\* The step in which worker w leaves worker_loop on the idle timeout.
Terminates(w) == pc[w] # "TERMINATED" /\ pc'[w] = "TERMINATED"

C12_Step ==
    \A w \in Workers :
        Terminates(w) =>
            /\ ReturnsNone(w)
            /\ args.idle_timeout > 0
            /\ idle_time[w] >= args.idle_timeout

\* C12: a worker becomes TERMINATED only in a step in which its claim fails
\* and the time it has held no task, since its start or since its last final
\* move, has reached --idle-timeout; the post-move delay and the run of a
\* command do not count.
C12_IdleAccounting == [][C12_Step]_vars

\* C13: nothing in a task makes a worker or the pool end: whatever the text
\* of a claimed task file (no command, a command that exits nonzero, a line
\* that cannot be split into arguments), no worker_loop ends by an exception
\* with its task left in the running directory, and main does not raise.
C13_NoTaskKillsWorker ==
    /\ \A w \in Workers : pc[w] # "CRASHED"
    /\ sup.pc # "raised"

\* The directory worker w's final move goes to.
FinalTarget(w) == IF cmd[w] = "" THEN EmptyTarget ELSE ResultTarget(rc[w])

\* The final move of worker w is about to fail.
FinalMoveFails(w) ==
    /\ pc[w] = "FINALIZING"
    /\ \A replaces \in BOOLEAN :
          ~atomic_move(fs, "running", FinalTarget(w), task_path[w],
                       replaces).ok

C14_Step ==
    \A w \in Workers :
        (FinalMoveFails(w) /\ pc'[w] # pc[w]) =>
            /\ fs' = fs
            /\ pc'[w] = "IDLE"
            /\ report' # NoReport
            /\ report'.kind \notin {"fim", "tarefa vazia"}

\* C14: when the final move out of the running directory fails, with or
\* without a command, nothing is moved, the worker prints a line that says
\* so and not the line that reports the move to the target directory, and
\* it goes on with the next claim.
C14_FinalizeFailureReported == [][C14_Step]_vars

\* log is an extension of old: what was written is still there.
Extends(log, old) ==
    /\ Len(log) >= Len(old)
    /\ \A i \in 1..Len(old) : log[i] = old[i]

C15_Step == \A s \in Names : Extends(logs'[s], logs[s])

\* C15: log files are append-only: after any step every log file is an
\* extension of what it was before the step, also when task names share a
\* stem.
C15_AppendOnly == [][C15_Step]_vars

Enters(d, n) == ~InDir(d, n) /\ InDir(d, n)'
Leaves(d, n) == InDir(d, n) /\ ~InDir(d, n)'

C16_Step ==
    \A n \in Names :
        /\ Enters("tasks", n) => \A d \in Dirs : ~InDir(d, n)
        /\ Leaves("tasks", n) => Enters("running", n)
        /\ Enters("running", n) => Leaves("tasks", n)
        /\ Leaves("running", n) =>
              Enters("finished", n) \/ Enters("failed", n)
        /\ \A d \in {"finished", "failed"} :
              /\ Enters(d, n) => Leaves("running", n)
              /\ ~Leaves(d, n)
              /\ InDir(d, n) => fs'[d][n] = fs[d][n]

\* C16: a task file moves forward only: from tasks to running, from running
\* to finished or failed; never from running back to tasks, never from
\* tasks straight to finished or failed, and never again once it is in
\* finished or failed.
C16_LifecycleMonotonic == [][C16_Step]_vars

\* Both ends of the lifecycle were reached: one task went through running to
\* failed, another one to finished.
C16_Witness ==
    \E n, m \in Names :
        /\ InDir("failed", n) /\ result[n] = "nonzero"
        /\ InDir("finished", m) /\ result[m] = "zero"
        /\ claims[n] = 1 /\ claims[m] = 1

\* Worker w's process has ended while it held a claimed task.
CrashedHolding(w) == pc[w] = "CRASHED" /\ task_path[w] # NoTask

C17_State ==
    /\ \A w \in Workers :
          CrashedHolding(w) =>
              /\ InDir("running", task_path[w])
              /\ Holders(task_path[w]) = {w}
    /\ started <= PoolSize
    /\ \A w \in Workers :
          (Live(w) /\ ~Waiting(w)) => ENABLED WorkerStep(w)

C17_Step ==
    \A w \in Workers :
        CrashedHolding(w) =>
            LET n == task_path[w] IN
            /\ pc'[w] = "CRASHED"
            /\ task_path'[w] = n
            /\ fs'["running"][n] = fs["running"][n]
            /\ claims'[n] = claims[n]
            /\ runs'[n] = runs[n]
            /\ result'[n] = result[n]
            /\ started' > started => pc[sup.procs] = "NOTSTARTED"

\* C17: when a worker process ends while it holds a claimed task, the task
\* file stays in the running directory for ever: no other worker claims,
\* runs or moves it, the worker is not started again and no worker is started
\* in its place, and every other live worker can take its next step.
C17_CrashLeavesTask == []C17_State /\ [][C17_Step]_vars

\* Worker w1 was killed or crashed holding n; the other worker has claimed
\* and finalized m, and is at its next claim.
C17_Witness ==
    \E w1, w2 \in Workers, n, m \in Names :
        /\ w1 # w2 /\ n # m
        /\ CrashedHolding(w1) /\ task_path[w1] = n
        /\ result[n] = "none"
        /\ result[m] # "none" /\ InDir("finished", m)
        /\ pc[w2] = "CLAIMING"

\* The state of worker w in the worker state machine: its claim_one_task
\* call is part of IDLE.
MachineState(w) == IF pc[w] = "CLAIMING" THEN "IDLE" ELSE pc[w]

MachineSteps ==
    { <<"NOTSTARTED", "IDLE">>, <<"IDLE", "CLAIMED">>,
      <<"CLAIMED", "EXECUTING">>, <<"EXECUTING", "FINALIZING">>,
      <<"CLAIMED", "FINALIZING">>, <<"FINALIZING", "IDLE">>,
      <<"IDLE", "TERMINATED">> }

\* Worker w's claim_one_task returns a handle in this step.
Claims(w) == task_path[w] = NoTask /\ task_path'[w] # NoTask

C18_State ==
    \A w \in Workers :
        task_path[w] # NoTask <=>
            MachineState(w) \in {"CLAIMED", "EXECUTING", "FINALIZING"}

C18_Step ==
    \A w \in Workers :
        /\ MachineState(w)' # MachineState(w) =>
              <<MachineState(w), MachineState(w)'>> \in MachineSteps
        /\ (MachineState(w) = "CLAIMED" /\ MachineState(w)' = "FINALIZING")
              => cmd'[w] = ""
        /\ Claims(w) => MachineState(w) = "IDLE"
        /\ (task_path[w] # NoTask /\ task_path'[w] # NoTask)
              => task_path'[w] = task_path[w]
        /\ pc[w] = "TERMINATED" => pc'[w] = "TERMINATED" /\ ~Claims(w)

\* C18: a worker takes only the steps IDLE -> CLAIMED -> EXECUTING ->
\* FINALIZING -> IDLE, CLAIMED -> FINALIZING for a task without a command,
\* and IDLE -> TERMINATED; it claims only in IDLE, holds a task exactly in
\* CLAIMED, EXECUTING and FINALIZING and never two, and once TERMINATED it
\* stays so and claims nothing.
C18_StateMachine == []C18_State /\ [][C18_Step]_vars

C19_State == \A n \in Names : runs[n] <= 1 /\ runs[n] <= claims[n]

C19_Step ==
    \A n \in Names :
        runs'[n] > runs[n] =>
            \E w \in Workers :
                /\ Holders(n) = {w}
                /\ pc[w] = "CLAIMED"
                /\ pc'[w] \in {"EXECUTING", "CRASHED"}
                /\ cmd'[w] = CommandOf(n)
                /\ \A v \in Workers \ {w} : pc'[v] = pc[v]

\* C19: with unique task names run_command is called at most once for a
\* task, with the command of its file, and by the one worker whose claim of
\* it succeeded.
C19_AtMostOnce == []C19_State /\ [][C19_Step]_vars

\* Two workers raced for the one task: one lost the race, the other one has
\* run its command, and the task is finalized.
C19_Witness ==
    \E n \in Names, w \in Workers :
        /\ placed = {n}
        /\ runs[n] = 1
        /\ result[n] = "nonzero"
        /\ lost[w] = 1
        /\ Holders(n) = {}

\* Every task is in finished or failed, every worker of the pool is
\* TERMINATED and main has returned.
PoolDone ==
    /\ \A n \in original : InDir("finished", n) \/ InDir("failed", n)
    /\ \A w \in Pool : pc[w] = "TERMINATED"
    /\ sup.pc = "returned"

\* C20: with a positive --idle-timeout, a fixed set of tasks in the tasks
\* directory, commands that exit, no worker killed and fair scheduling,
\* every task ends in finished or failed, every worker becomes TERMINATED
\* and main returns.
C20_PoolCompletes == <>PoolDone
====
